---- MODULE Spec2Model ----
(***************************************************************************)
(* Saturating Q15 AXPY  y[i] = clamp16(a[i] + alpha * b[i]):  the scalar   *)
(* reference kernel, the RVV kernel (and its non-RISC-V fallback), the     *)
(* array comparison and the benchmark driver of q15_axpy_challenge.c.      *)
(*                                                                         *)
(* Memory is a set of objects (arrays); a pointer is an object name and an *)
(* element offset, so that `a += vl` and an access past the end of a       *)
(* buffer are both expressible.                                            *)
(***************************************************************************)
EXTENDS Integers, Sequences, FiniteSets, TLC

VARIABLES
    mem,        \* object name -> sequence of int16 (the arrays behind a, b, y_ref, y_rvv)
    pc,         \* position of the running function
    ret,        \* where the running callee returns to
    fa, fb, fy, \* the callee's pointer parameters a, b, y (ref / test for arrays_match)
    n,          \* the callee's int n
    alpha,      \* the callee's int16_t alpha
    i,          \* loop index of q15_axpy_ref / arrays_match
    remaining,  \* size_t remaining of q15_axpy_rvv
    vlmax,      \* the platform's VLMAX for SEW=16, LMUL=1
    rvvBuild,   \* TRUE: built with __riscv && __riscv_vector; FALSE: fallback build
    reads,      \* <<object, index>> pairs loaded by the kernel calls so far
    writes,     \* <<object, index>> pairs stored by the kernel calls so far
    chunks,     \* the chunks <<y offset, vl>> stored by q15_axpy_rvv, in order
    iters,      \* loop bodies of q15_axpy_ref executed by the current call
    match,      \* arrays_match: int match
    max_diff,   \* arrays_match: *max_diff
    pass,       \* run_edge_tests: int pass
    ecase,      \* run_edge_tests: which of the four cases is running
    ok,         \* main: int ok
    status,     \* main: the process exit status, -1 while running
    trace,      \* main: the phases begun so far, in order
    satv,       \* argument of a direct sat_q15 call
    satr        \* its result

vars == <<mem, pc, ret, fa, fb, fy, n, alpha, i, remaining, vlmax, rvvBuild,
          reads, writes, chunks, iters, match, max_diff, pass, ecase, ok,
          status, trace, satv, satr>>

----------------------------------------------------------------------------
(* Integer types *)

Max16 == 32767
Min16 == -32768
Max32 == 2147483647
Min32 == -Max32 - 1

Int16 == Min16 .. Max16
InInt32(x) == Min32 <= x /\ x <= Max32

Abs(x) == IF x < 0 THEN -x ELSE x

\* (int16_t)v for an int32_t v: the low 16 bits, read as two's complement.
CastInt16(v) == ((v + 32768) % 65536) - 32768

\* int32_t x * int32_t y would leave the int32 range (signed overflow).
\* Exact except that a product equal to Min32 is reported as overflowing.
MulOverflows(x, y) ==
    x # 0 /\ y # 0 /\ (x = Min32 \/ y = Min32 \/ Abs(y) > Max32 \div Abs(x))

\* int32_t x + int32_t y would leave the int32 range (signed overflow).
AddOverflows(x, y) ==
    \/ y > 0 /\ x > Max32 - y
    \/ y < 0 /\ x < Min32 - y

\* 32-bit two's complement addition, wrapping modulo 2^32.
WrapAdd32(x, y) ==
    IF y > 0 /\ x > Max32 - y THEN (x - Max32 - 1) + (y - Max32 - 1)
    ELSE IF y < 0 /\ x < Min32 - y THEN (x + Max32 + 1) + (y + Max32 + 1)
    ELSE x + y

\* size_t: a value is lo when ~big, and SIZE_MAX + 1 + lo (lo < 0) when big.
ToSizeT(k) == [big |-> k < 0, lo |-> k]
SizeIsZero(s) == ~s.big /\ s.lo = 0
SizeSub(s, k) == [big |-> s.big \/ s.lo < k, lo |-> s.lo - k]

----------------------------------------------------------------------------
(* Memory *)

Objects == {"a", "b", "y_ref", "y_rvv"}
Ptr(o) == [obj |-> o, off |-> 0]
PtrAdd(p, k) == [p EXCEPT !.off = @ + k]

InBounds(m, p, k) == p.off + k >= 0 /\ p.off + k < Len(m[p.obj])
Load(m, p, k) == m[p.obj][p.off + k + 1]
Store(m, p, k, v) == [m EXCEPT ![p.obj][p.off + k + 1] = v]
Cell(p, k) == <<p.obj, p.off + k>>

----------------------------------------------------------------------------
(* sat_q15 *)

sat_q15_no_lower_clamp(v) ==
    IF v > 32767 THEN 32767 ELSE CastInt16(v)

sat_q15(v) ==
    IF v > 32767 THEN 32767
    ELSE IF v < -32768 THEN -32768
    ELSE CastInt16(v)

----------------------------------------------------------------------------
(* The platform *)

\* What a build can do after undefined behaviour (an access outside an
\* object, a signed overflow): trap, or carry on in an arbitrary state.
UbOutcomes == {"fault", "ub"}

CeilHalf(k) == (k + 1) \div 2

\* vl = __riscv_vsetvl_e16m1(avl).  The vector extension fixes vl = avl when
\* avl <= VLMAX and vl = VLMAX when avl >= 2*VLMAX, and lets the hardware
\* choose any vl with ceil(avl/2) <= vl <= VLMAX in between.
vsetvl_full_width(avl) == {vlmax}

vsetvl_e16m1(avl) ==
    IF avl.big \/ avl.lo >= 2 * vlmax THEN {vlmax}
    ELSE IF avl.lo <= vlmax THEN {avl.lo}
    ELSE CeilHalf(avl.lo) .. vlmax

\* vle16: vl consecutive elements starting at p.
vle16_v_i16m1(m, p, vl) == [k \in 1 .. vl |-> Load(m, p, k - 1)]

\* vwmul.vx: the full 32-bit product of each 16-bit element and the scalar.
vwmul_vx_i32m2(vb, x, vl) == [k \in 1 .. vl |-> vb[k] * x]

\* vwadd.wv: 32-bit element plus sign-extended 16-bit element, modulo 2^32.
vwadd_wv_i32m2(w, v, vl) == [k \in 1 .. vl |-> WrapAdd32(w[k], v[k])]

Pow2(d) == IF d = 0 THEN 1 ELSE 2 ^ d

\* roundoff_signed(v, d) under vxrm = rnu (round-to-nearest-up): v >> d plus
\* bit d-1 of v; nothing is added when d = 0.
RoundoffRNU(v, d) ==
    IF d = 0 THEN v ELSE (v \div Pow2(d)) + ((v \div Pow2(d - 1)) % 2)

\* vnclip.wx: shift right by the low 5 bits of shift with rounding, then
\* saturate the 32-bit result to the signed 16-bit range.
vnclip_truncating(w, shift, vl) ==
    [k \in 1 .. vl |-> CastInt16(RoundoffRNU(w[k], shift % 32))]

vnclip_wx_i16m1(w, shift, vl) ==
    [k \in 1 .. vl |->
        LET r == RoundoffRNU(w[k], shift % 32)
        IN  IF r > Max16 THEN Max16 ELSE IF r < Min16 THEN Min16 ELSE r]

\* vse16: vl consecutive elements stored starting at p.
vse16_v_i16m1(m, p, vy, vl) ==
    [m EXCEPT ![p.obj] =
        [j \in 1 .. Len(@) |->
            IF j > p.off /\ j <= p.off + vl THEN vy[j - p.off] ELSE @[j]]]

ChunkInBounds(m, p, vl) ==
    p.off >= 0 /\ p.off + vl <= Len(m[p.obj])

ChunkCells(p, vl) == {<<p.obj, p.off + k>> : k \in 0 .. vl - 1}

----------------------------------------------------------------------------
(* q15_axpy_ref *)

\* int32_t result = (int32_t)a[i] + (int32_t)alpha * (int32_t)b[i];
RefOverflows(av, al, bv) ==
    MulOverflows(al, bv) \/ AddOverflows(av, al * bv)

RefResultInt16(av, al, bv) == CastInt16(av + CastInt16(al * bv))

RefResult(av, al, bv) == av + al * bv

RefLoopCondInclusive(k, len) == k <= len

RefLoopCond(k, len) == k < len

\* Function entry: the parameters are bound and i = 0.
EnterRef(pa, pb, py, len, al, r) ==
    /\ fa' = pa /\ fb' = pb /\ fy' = py
    /\ n' = len /\ alpha' = al
    /\ i' = 0 /\ iters' = 0
    /\ ret' = r
    /\ pc' = "ref_loop"

\* One pass of the loop body (i < n holds).
RefIter ==
    /\ pc = "ref_loop"
    /\ RefLoopCond(i, n)
    /\ IF /\ InBounds(mem, fa, i) /\ InBounds(mem, fb, i) /\ InBounds(mem, fy, i)
          /\ ~RefOverflows(Load(mem, fa, i), alpha, Load(mem, fb, i))
       THEN /\ mem' = Store(mem, fy, i,
                        sat_q15(RefResult(Load(mem, fa, i), alpha, Load(mem, fb, i))))
            /\ reads' = reads \cup {Cell(fa, i), Cell(fb, i)}
            /\ writes' = writes \cup {Cell(fy, i)}
            /\ i' = i + 1
            /\ iters' = iters + 1
            /\ UNCHANGED pc
       ELSE /\ pc' \in UbOutcomes
            /\ UNCHANGED <<mem, reads, writes, i, iters>>
    /\ UNCHANGED <<ret, fa, fb, fy, n, alpha, remaining, vlmax, rvvBuild, chunks,
                   match, max_diff, pass, ecase, ok, status, trace, satv, satr>>

\* The loop condition fails: the function returns.
RefReturn ==
    /\ pc = "ref_loop"
    /\ ~RefLoopCond(i, n)
    /\ pc' = ret
    /\ UNCHANGED <<mem, ret, fa, fb, fy, n, alpha, i, remaining, vlmax, rvvBuild,
                   reads, writes, chunks, iters, match, max_diff, pass, ecase,
                   ok, status, trace, satv, satr>>

----------------------------------------------------------------------------
(* q15_axpy_rvv *)

RvvStorePtrIsA(pa, pb, py) == pa

RvvStorePtr(pa, pb, py) == py

\* Function entry.  RVV build: remaining = (size_t)n.  Fallback build: the
\* body is the call q15_axpy_ref(a, b, y, n, alpha).
EnterRvv(pa, pb, py, len, al, r) ==
    IF rvvBuild
    THEN /\ fa' = pa /\ fb' = pb /\ fy' = py
         /\ n' = len /\ alpha' = al
         /\ remaining' = ToSizeT(len)
         /\ chunks' = <<>>
         /\ ret' = r
         /\ pc' = "rvv_loop"
         /\ UNCHANGED <<i, iters>>
    ELSE /\ EnterRef(pa, pb, py, len, al, r)
         /\ UNCHANGED <<remaining, chunks>>

\* One pass of the while loop (remaining > 0 holds).
RvvChunk ==
    /\ pc = "rvv_loop"
    /\ ~SizeIsZero(remaining)
    /\ \E vl \in vsetvl_e16m1(remaining) :
        IF /\ ChunkInBounds(mem, fa, vl) /\ ChunkInBounds(mem, fb, vl)
           /\ ChunkInBounds(mem, fy, vl)
        THEN LET va == vle16_v_i16m1(mem, fa, vl)
                 vb == vle16_v_i16m1(mem, fb, vl)
                 prod == vwmul_vx_i32m2(vb, alpha, vl)
                 sum == vwadd_wv_i32m2(prod, va, vl)
                 vy == vnclip_wx_i16m1(sum, 0, vl)
                 dst == RvvStorePtr(fa, fb, fy)
             IN  /\ mem' = vse16_v_i16m1(mem, dst, vy, vl)
                 /\ reads' = reads \cup ChunkCells(fa, vl) \cup ChunkCells(fb, vl)
                 /\ writes' = writes \cup ChunkCells(dst, vl)
                 /\ chunks' = Append(chunks, <<fy.off, vl>>)
                 /\ fa' = PtrAdd(fa, vl)
                 /\ fb' = PtrAdd(fb, vl)
                 /\ fy' = PtrAdd(fy, vl)
                 /\ remaining' = SizeSub(remaining, vl)
                 /\ UNCHANGED pc
        ELSE /\ pc' \in UbOutcomes
             /\ UNCHANGED <<mem, reads, writes, chunks, fa, fb, fy, remaining>>
    /\ UNCHANGED <<ret, n, alpha, i, vlmax, rvvBuild, iters, match, max_diff,
                   pass, ecase, ok, status, trace, satv, satr>>

\* remaining = 0: the function returns.
RvvReturn ==
    /\ pc = "rvv_loop"
    /\ SizeIsZero(remaining)
    /\ pc' = ret
    /\ UNCHANGED <<mem, ret, fa, fb, fy, n, alpha, i, remaining, vlmax, rvvBuild,
                   reads, writes, chunks, iters, match, max_diff, pass, ecase,
                   ok, status, trace, satv, satr>>

----------------------------------------------------------------------------
(* Bounds and input domains *)

MaxLen == 2       \* lengths 0 .. MaxLen are run with every combination of samples
MaxLong == 6      \* lengths MaxLen+1 .. MaxLong are run with patterned data
MaxNeg == 1       \* negative lengths -MaxNeg .. -1
MaxVLog == 2      \* VLMAX ranges over 2^1 .. 2^MaxVLog
Slack == 1        \* elements each buffer holds beyond the n passed to a kernel
NegCap == 2       \* elements each buffer holds when a negative n is passed
SatSpan == 20     \* sat_q15 is called on every v within SatSpan of its boundaries

Q15Seq == <<-32768, 1, 32767>>
Q15Sample == {Q15Seq[k] : k \in 1 .. Len(Q15Seq)}
AlphaSample == {-32768, -1, 1, 32767}

VlmaxChoices == {2 ^ k : k \in 1 .. MaxVLog}

\* An array of len samples, position-dependent, starting at phase s.
Pattern(s, len) == [k \in 1 .. len |-> Q15Seq[((s + k) % Len(Q15Seq)) + 1]]

Fill(v, len) == [k \in 1 .. len |-> v]

Buffers(da, db, cap) ==
    [o \in Objects |->
        CASE o = "a" -> da \o Fill(0, cap - Len(da))
          [] o = "b" -> db \o Fill(0, cap - Len(db))
          [] OTHER -> Fill(0, cap)]

Idle ==
    /\ ret = "done"
    /\ fa = Ptr("a") /\ fb = Ptr("b") /\ fy = Ptr("y_ref")
    /\ i = 0 /\ iters = 0
    /\ remaining = ToSizeT(0)
    /\ reads = {} /\ writes = {} /\ chunks = <<>>
    /\ match = -1 /\ max_diff = -1
    /\ pass = -1 /\ ecase = 0 /\ ok = -1 /\ status = -1
    /\ trace = <<>>
    /\ satr = 0

Platform ==
    /\ rvvBuild \in BOOLEAN
    /\ vlmax \in (IF rvvBuild THEN VlmaxChoices ELSE {0})

----------------------------------------------------------------------------
(* A caller of the two kernels: q15_axpy_ref(a, b, y_ref, n, alpha), then    *)
(* q15_axpy_rvv(a, b, y_rvv, n, alpha), on the same inputs.                 *)

InitShort ==
    /\ n \in 0 .. MaxLen
    /\ \E da \in [1 .. n -> Q15Sample], db \in [1 .. n -> Q15Sample] :
           mem = Buffers(da, db, n + Slack)

InitLong ==
    /\ n \in MaxLen + 1 .. MaxLong
    /\ \E sa \in 0 .. Len(Q15Seq) - 1, sb \in 0 .. Len(Q15Seq) - 1 :
           mem = Buffers(Pattern(sa, n), Pattern(sb, n), n + Slack)

InitNeg ==
    /\ n \in -MaxNeg .. -1
    /\ \E sa \in 0 .. Len(Q15Seq) - 1, sb \in 0 .. Len(Q15Seq) - 1 :
           mem = Buffers(Pattern(sa, NegCap), Pattern(sb, NegCap), NegCap)

\* The four single-element cases of run_edge_tests, as <<a, b, alpha>>.
EdgeCases == <<
    <<32767, 1, 1>>,
    <<-32768, 1, -1>>,
    <<0, 32767, 32767>>,
    <<100, 200, 5>> >>

EdgeExpected == <<32767, -32768, 32767, 1100>>

InitEdge ==
    /\ n = 1
    /\ \E c \in 1 .. Len(EdgeCases) :
           /\ alpha = EdgeCases[c][3]
           /\ mem = Buffers(<<EdgeCases[c][1]>>, <<EdgeCases[c][2]>>, n + Slack)

InitKernels ==
    /\ pc = "call_ref"
    /\ satv = 0
    /\ \/ alpha \in AlphaSample /\ (InitShort \/ InitLong \/ InitNeg)
       \/ InitEdge

(* A caller of sat_q15(v). *)

SatInputs ==
    {Min32, Max32}
        \cup (Min16 - SatSpan .. Min16 + SatSpan)
        \cup (-SatSpan .. SatSpan)
        \cup (Max16 - SatSpan .. Max16 + SatSpan)
        \cup {Min32 + k : k \in 1 .. SatSpan}
        \cup {Max32 - k : k \in 1 .. SatSpan}

InitSat ==
    /\ pc = "call_sat"
    /\ n = 0 /\ alpha = 0
    /\ mem = Buffers(<<>>, <<>>, 0)
    /\ satv \in SatInputs

CallSat ==
    /\ pc = "call_sat"
    /\ satr' = sat_q15(satv)
    /\ pc' = "sat_done"
    /\ UNCHANGED <<mem, ret, fa, fb, fy, n, alpha, i, remaining, vlmax, rvvBuild,
                   reads, writes, chunks, iters, match, max_diff, pass, ecase,
                   ok, status, trace, satv>>

Init ==
    /\ Platform
    /\ Idle
    /\ (InitKernels \/ InitSat)

CallRef ==
    /\ pc = "call_ref"
    /\ EnterRef(Ptr("a"), Ptr("b"), Ptr("y_ref"), n, alpha, "call_rvv")
    /\ UNCHANGED <<mem, remaining, vlmax, rvvBuild, reads, writes, chunks,
                   match, max_diff, pass, ecase, ok, status, trace, satv, satr>>

CallRvv ==
    /\ pc = "call_rvv"
    /\ EnterRvv(Ptr("a"), Ptr("b"), Ptr("y_rvv"), n, alpha, "done")
    /\ UNCHANGED <<mem, vlmax, rvvBuild, reads, writes,
                   match, max_diff, pass, ecase, ok, status, trace, satv, satr>>

Next ==
    \/ CallRef
    \/ RefIter
    \/ RefReturn
    \/ CallRvv
    \/ RvvChunk
    \/ RvvReturn
    \/ CallSat

Spec == Init /\ [][Next]_vars

----------------------------------------------------------------------------
(* arrays_match *)

AbsDiffNoNegate(r, t) == r - t

\* int32_t diff = (int32_t)ref[i] - (int32_t)test[i]; if (diff < 0) diff = -diff;
AbsDiff(r, t) == IF r - t < 0 THEN -(r - t) ELSE r - t

\* Function entry: match = 1, *max_diff = 0, i = 0.
EnterCmp(pref, ptest, len, r) ==
    /\ fa' = pref /\ fb' = ptest
    /\ n' = len
    /\ match' = 1
    /\ max_diff' = 0
    /\ i' = 0
    /\ ret' = r
    /\ pc' = "cmp_loop"

\* One pass of the loop body (i < n holds).
CmpIter ==
    /\ pc = "cmp_loop"
    /\ i < n
    /\ IF InBounds(mem, fa, i) /\ InBounds(mem, fb, i)
       THEN LET diff == AbsDiff(Load(mem, fa, i), Load(mem, fb, i))
            IN  /\ max_diff' = IF diff > max_diff THEN diff ELSE max_diff
                /\ match' = IF diff # 0 THEN 0 ELSE match
                /\ i' = i + 1
                /\ UNCHANGED pc
       ELSE /\ pc' \in UbOutcomes
            /\ UNCHANGED <<max_diff, match, i>>
    /\ UNCHANGED <<mem, ret, fa, fb, fy, n, alpha, remaining, vlmax, rvvBuild,
                   reads, writes, chunks, iters, pass, ecase, ok, status, trace,
                   satv, satr>>

\* The loop condition fails: return match.
CmpReturn ==
    /\ pc = "cmp_loop"
    /\ ~(i < n)
    /\ pc' = ret
    /\ UNCHANGED <<mem, ret, fa, fb, fy, n, alpha, i, remaining, vlmax, rvvBuild,
                   reads, writes, chunks, iters, match, max_diff, pass, ecase,
                   ok, status, trace, satv, satr>>

(* A caller of arrays_match(y_ref, y_rvv, n, &max_diff) on arbitrary arrays. *)

MaxCmpLen == 3    \* arrays_match is called directly with n in 0 .. MaxCmpLen
CmpSample == {-32768, 0, 32767}

InitCmp ==
    /\ pc = "call_cmp"
    /\ Platform
    /\ Idle
    /\ satv = 0
    /\ alpha = 0
    /\ n \in 0 .. MaxCmpLen
    /\ \E dr \in [1 .. n -> CmpSample], dt \in [1 .. n -> CmpSample] :
          mem = [o \in Objects |->
                    CASE o = "y_ref" -> dr \o Fill(0, Slack)
                      [] o = "y_rvv" -> dt \o Fill(0, Slack)
                      [] OTHER -> Fill(0, n + Slack)]

CallCmp ==
    /\ pc = "call_cmp"
    /\ EnterCmp(Ptr("y_ref"), Ptr("y_rvv"), n, "done")
    /\ UNCHANGED <<mem, fy, alpha, remaining, vlmax, rvvBuild, reads, writes,
                   chunks, iters, pass, ecase, ok, status, trace, satv, satr>>

NextCmp ==
    \/ CallCmp
    \/ CmpIter
    \/ CmpReturn

SpecCmp == InitCmp /\ [][NextCmp]_vars

----------------------------------------------------------------------------
(* run_edge_tests and main *)

N == 2            \* main's buffer length (4096 in the source)

\* The locals a, b, y_ref, y_rvv of run_edge_tests, with a and b assigned.
EdgeLocals(c) ==
    [o \in Objects |->
        CASE o = "a" -> <<EdgeCases[c][1]>>
          [] o = "b" -> <<EdgeCases[c][2]>>
          [] OTHER -> mem[o]]

\* Where main continues once run_edge_tests has returned.
AfterEdgeTestsSkipsSetup == "time_ref"

AfterEdgeTests == "alloc"

\* main's return value when an allocation has failed.
AllocFailureStatusFromOk(okv) == IF okv # 0 THEN 0 ELSE 1

AllocFailureStatus(okv) == 1

\* main begins: ok = 1; run_edge_tests is entered: pass = 1.
MainStart ==
    /\ pc = "main"
    /\ ok' = 1
    /\ pass' = 1
    /\ ecase' = 1
    /\ trace' = Append(trace, "edge")
    /\ pc' = "edge_ref"
    /\ UNCHANGED <<mem, ret, fa, fb, fy, n, alpha, i, remaining, vlmax, rvvBuild,
                   reads, writes, chunks, iters, match, max_diff, status, satv, satr>>

\* a = ...; b = ...; q15_axpy_ref(&a, &b, &y_ref, 1, alpha);
EdgeCallRef ==
    /\ pc = "edge_ref"
    /\ mem' = EdgeLocals(ecase)
    /\ EnterRef(Ptr("a"), Ptr("b"), Ptr("y_ref"), 1, EdgeCases[ecase][3], "edge_rvv")
    /\ UNCHANGED <<remaining, vlmax, rvvBuild, reads, writes, chunks, match,
                   max_diff, pass, ecase, ok, status, trace, satv, satr>>

\* q15_axpy_rvv(&a, &b, &y_rvv, 1, alpha);
EdgeCallRvv ==
    /\ pc = "edge_rvv"
    /\ EnterRvv(Ptr("a"), Ptr("b"), Ptr("y_rvv"), 1, EdgeCases[ecase][3], "edge_check")
    /\ UNCHANGED <<mem, vlmax, rvvBuild, reads, writes, match, max_diff, pass,
                   ecase, ok, status, trace, satv, satr>>

\* if (y_ref != expected || y_rvv != expected) pass = 0;  then the next case,
\* or after the last one: return pass, and main's  if (!run_edge_tests()) ok = 0;
EdgeCheck ==
    /\ pc = "edge_check"
    /\ LET p == IF mem["y_ref"][1] # EdgeExpected[ecase]
                   \/ mem["y_rvv"][1] # EdgeExpected[ecase]
                THEN 0 ELSE pass
       IN  /\ pass' = p
           /\ IF ecase < Len(EdgeCases)
              THEN /\ ecase' = ecase + 1
                   /\ pc' = "edge_ref"
                   /\ UNCHANGED ok
              ELSE /\ ok' = IF p = 0 THEN 0 ELSE ok
                   /\ pc' = AfterEdgeTests
                   /\ UNCHANGED ecase
    /\ UNCHANGED <<mem, ret, fa, fb, fy, n, alpha, i, remaining, vlmax, rvvBuild,
                   reads, writes, chunks, iters, match, max_diff, status, trace,
                   satv, satr>>

\* The four aligned_alloc calls and the test of their results.  The new
\* buffers are uninitialised; every element is stored before it is loaded.
Alloc ==
    /\ pc = "alloc"
    /\ \E success \in BOOLEAN :
          IF success
          THEN /\ mem' = [o \in Objects |-> Fill(0, N)]
               /\ trace' = Append(trace, "alloc")
               /\ pc' = "fill"
               /\ UNCHANGED status
          ELSE /\ status' = AllocFailureStatus(ok)
               /\ trace' = Append(trace, "alloc_failed")
               /\ pc' = "exit"
               /\ UNCHANGED mem
    /\ UNCHANGED <<ret, fa, fb, fy, n, alpha, i, remaining, vlmax, rvvBuild,
                   reads, writes, chunks, iters, match, max_diff, pass, ecase,
                   ok, satv, satr>>

\* srand(1234) and the loop assigning (int16_t)(rand() % 65536 - 32768) to
\* every a[i] and b[i]; alpha = 3.  rand() is the C library's.
FillRandom ==
    /\ pc = "fill"
    /\ \E da \in [1 .. N -> Q15Sample], db \in [1 .. N -> Q15Sample] :
          mem' = [mem EXCEPT !["a"] = da, !["b"] = db]
    /\ alpha' = 3
    /\ trace' = Append(trace, "fill")
    /\ pc' = "time_ref"
    /\ UNCHANGED <<ret, fa, fb, fy, n, i, remaining, vlmax, rvvBuild, reads, writes, chunks,
                   iters, match, max_diff, pass, ecase, ok, status, satv, satr>>

\* t0 = rdcycle(); q15_axpy_ref(a, b, y_ref, N, alpha);
\* (The cycle counts only feed the printfs and are not kept.)
TimeRef ==
    /\ pc = "time_ref"
    /\ EnterRef(Ptr("a"), Ptr("b"), Ptr("y_ref"), N, alpha, "after_ref")
    /\ trace' = Append(trace, "scalar")
    /\ UNCHANGED <<mem, remaining, vlmax, rvvBuild, reads, writes, chunks, match,
                   max_diff, pass, ecase, ok, status, satv, satr>>

\* t1 = rdcycle(); printf; t0 = rdcycle(); q15_axpy_rvv(a, b, y_rvv, N, alpha);
TimeRvv ==
    /\ pc = "after_ref"
    /\ EnterRvv(Ptr("a"), Ptr("b"), Ptr("y_rvv"), N, alpha, "after_rvv")
    /\ trace' = Append(trace, "rvv")
    /\ UNCHANGED <<mem, vlmax, rvvBuild, reads, writes, match, max_diff, pass,
                   ecase, ok, status, satv, satr>>

\* t1 = rdcycle(); int match = arrays_match(y_ref, y_rvv, N, &max_diff);
Verify ==
    /\ pc = "after_rvv"
    /\ EnterCmp(Ptr("y_ref"), Ptr("y_rvv"), N, "report")
    /\ trace' = Append(trace, "compare")
    /\ UNCHANGED <<mem, fy, alpha, remaining, vlmax, rvvBuild, reads, writes,
                   chunks, iters, pass, ecase, ok, status, satv, satr>>

\* if (!match) ok = 0; the printfs; the frees; return ok ? 0 : 1;
Report ==
    /\ pc = "report"
    /\ LET o == IF match = 0 THEN 0 ELSE ok
       IN  /\ ok' = o
           /\ status' = IF o # 0 THEN 0 ELSE 1
    /\ trace' = Append(trace, "report")
    /\ pc' = "exit"
    /\ UNCHANGED <<mem, ret, fa, fb, fy, n, alpha, i, remaining, vlmax, rvvBuild,
                   reads, writes, chunks, iters, match, max_diff, pass, ecase,
                   satv, satr>>

InitMain ==
    /\ pc = "main"
    /\ Platform
    /\ Idle
    /\ satv = 0
    /\ n = 0 /\ alpha = 0
    /\ mem = [o \in Objects |-> Fill(0, 1)]

NextMain ==
    \/ MainStart
    \/ EdgeCallRef
    \/ EdgeCallRvv
    \/ EdgeCheck
    \/ Alloc
    \/ FillRandom
    \/ TimeRef
    \/ TimeRvv
    \/ Verify
    \/ Report
    \/ RefIter
    \/ RefReturn
    \/ RvvChunk
    \/ RvvReturn
    \/ CmpIter
    \/ CmpReturn

SpecMain == InitMain /\ [][NextMain]_vars

----------------------------------------------------------------------------
(* Properties of the kernels *)

\* The exact value a + alpha * b, clamped to the signed 16-bit range.
ClampQ15(x) == IF x > 32767 THEN 32767 ELSE IF x < -32768 THEN -32768 ELSE x
Exact(k) == ClampQ15(mem["a"][k] + alpha * mem["b"][k])

RECURSIVE SumVl(_)
SumVl(cs) == IF cs = <<>> THEN 0 ELSE cs[Len(cs)][2] + SumVl(SubSeq(cs, 1, Len(cs) - 1))

MinOf(x, y) == IF x < y THEN x ELSE y

RefDone == pc \in {"call_rvv", "rvv_loop", "done"}

\* The run is a call of the two kernels (not of sat_q15 alone).
KernelRun == pc \notin {"call_sat", "sat_done"}

\* C1: for every n >= 0 and all inputs, once both kernels have returned the
\* data-parallel kernel's output equals the scalar kernel's output at every
\* index below n, whatever chunk widths the platform chose; neither call
\* runs into undefined behaviour.
C1_Equivalence ==
    (KernelRun /\ n >= 0) =>
        /\ pc \notin UbOutcomes
        /\ pc = "done" => \A k \in 1 .. n : mem["y_rvv"][k] = mem["y_ref"][k]

\* C1 witness: both kernels have returned on an input longer than VLMAX,
\* stored in several chunks, with saturated and unsaturated outputs.
C1_Witness ==
    /\ pc = "done" /\ rvvBuild /\ n > vlmax /\ Len(chunks) >= 2
    /\ \E k \in 1 .. n : mem["y_rvv"][k] = 32767
    /\ \E k \in 1 .. n : mem["y_rvv"][k] = -32768
    /\ \E k \in 1 .. n : mem["y_rvv"][k] \notin {32767, -32768}

\* C2: for every n >= 0, after q15_axpy_ref has returned each y[i], i < n,
\* is the exact integer a[i] + alpha * b[i] clamped to [-32768, 32767], and
\* the int32 arithmetic never overflowed on the way.
C2_RefExact ==
    (KernelRun /\ n >= 0) =>
        /\ pc \notin UbOutcomes
        /\ RefDone => \A k \in 1 .. n : mem["y_ref"][k] = Exact(k)

\* C2 witness: q15_axpy_ref has returned on the largest accumulator,
\* 32767 + (-32768) * (-32768) = 2^30 + 32767.
C2_Witness ==
    /\ pc = "call_rvv" /\ n = 1 /\ alpha = -32768
    /\ mem["a"][1] = 32767 /\ mem["b"][1] = -32768
    /\ mem["y_ref"][1] = 32767

\* C6: a kernel call with a negative n is rejected with an invalid-argument
\* condition and touches no element of a, b or y.  (No position of either
\* kernel signals an error: "einval" stands for the rejection the claim
\* asks for.)
C6_NegativeLengthRejected ==
    n < 0 =>
        /\ pc \in {"call_ref", "ref_loop", "rvv_loop", "einval"}
        /\ reads = {} /\ writes = {}

\* C7: with n = 0 neither kernel stores anything, neither enters its loop
\* body, and both return normally.
C7_ZeroLengthNoOp ==
    (KernelRun /\ n = 0) =>
        /\ writes = {} /\ reads = {}
        /\ iters = 0 /\ chunks = <<>>
        /\ pc \notin UbOutcomes
        /\ \A o \in Objects : mem[o] = Fill(0, Slack)

\* C7 witness: both kernels have returned from a call with n = 0 (RVV build).
C7_Witness == n = 0 /\ pc = "done" /\ rvvBuild

\* C8: in a call with n >= 0 no step of either kernel changes an element of
\* a or b.
C8_InputsUnchanged ==
    [][n >= 0 => (mem'["a"] = mem["a"] /\ mem'["b"] = mem["b"])]_vars

\* C8 witness: both kernels have stored every element of their outputs.
C8_Witness ==
    /\ pc = "done" /\ rvvBuild /\ n >= 2
    /\ {c[2] : c \in {w \in writes : w[1] = "y_rvv"}} = 0 .. n - 1
    /\ {c[2] : c \in {w \in writes : w[1] = "y_ref"}} = 0 .. n - 1

\* What holds of the chunk loop whatever vl the hardware returns: the chunks
\* are consecutive from offset 0, each of at least 1 and at most the
\* remaining count, remaining is n less the elements done, and only indices
\* below n are touched; on return remaining = 0 and every index below n
\* has been loaded and stored.
ChunksCover ==
    /\ ~remaining.big
    /\ remaining.lo = n - SumVl(chunks)
    /\ remaining.lo >= 0
    /\ Len(chunks) <= n
    /\ (pc = "rvv_loop" /\ ~SizeIsZero(remaining)) => ENABLED RvvChunk
    /\ \A c \in 1 .. Len(chunks) :
          /\ chunks[c][1] = SumVl(SubSeq(chunks, 1, c - 1))
          /\ chunks[c][2] >= 1
          /\ chunks[c][2] <= MinOf(n - chunks[c][1], vlmax)
    /\ {w \in writes : w[1] = "y_rvv"} = {<<"y_rvv", k>> : k \in 0 .. SumVl(chunks) - 1}
    /\ {r[2] : r \in reads} \subseteq 0 .. n - 1
    /\ {w[2] : w \in writes} \subseteq 0 .. n - 1
    /\ pc = "done" =>
          /\ SizeIsZero(remaining)
          /\ {r \in reads : r[1] = "a"} = {<<"a", k>> : k \in 0 .. n - 1}
          /\ {r \in reads : r[1] = "b"} = {<<"b", k>> : k \in 0 .. n - 1}
          /\ (n % vlmax # 0 => chunks[Len(chunks)][2] < vlmax)

\* C9 as stated: in addition every chunk has size min(remaining, VLMAX).
C9_ChunksAreMinOfRemainingAndWidth ==
    (rvvBuild /\ n >= 0 /\ pc \in {"rvv_loop", "done"}) =>
        /\ ChunksCover
        /\ \A c \in 1 .. Len(chunks) :
              chunks[c][2] = MinOf(n - chunks[c][1], vlmax)

\* C9 amended: a chunk has size min(remaining, VLMAX) whenever remaining is
\* at most VLMAX or at least 2*VLMAX, and otherwise some size from
\* ceil(remaining/2) to VLMAX.
C9_ChunksExhaustLength ==
    (rvvBuild /\ n >= 0 /\ pc \in {"rvv_loop", "done"}) =>
        /\ ChunksCover
        /\ \A c \in 1 .. Len(chunks) :
              LET rem == n - chunks[c][1]
              IN  IF rem <= vlmax \/ rem >= 2 * vlmax
                  THEN chunks[c][2] = MinOf(rem, vlmax)
                  ELSE chunks[c][2] >= CeilHalf(rem)

\* C9 witness: a length that is no multiple of VLMAX was done in two
\* chunks, both narrower than VLMAX.
C9_Witness ==
    /\ pc = "done" /\ rvvBuild /\ n % vlmax # 0
    /\ Len(chunks) = 2
    /\ chunks[1][2] < vlmax
    /\ chunks[2][2] < vlmax

\* C3: sat_q15 returns 32767 for v > 32767, -32768 for v < -32768 and v
\* itself otherwise, for every int32 v; and every element a kernel has
\* stored lies in [-32768, 32767].
C3_SaturationBounds ==
    /\ pc = "sat_done" =>
          /\ InInt32(satv)
          /\ satv > 32767 => satr = 32767
          /\ satv < -32768 => satr = -32768
          /\ (satv >= -32768 /\ satv <= 32767) => satr = satv
          /\ satr \in Int16
    /\ \A w \in writes : mem[w[1]][w[2] + 1] \in Int16

\* C3 witness: sat_q15 has returned on the least int32.
C3_Witness == pc = "sat_done" /\ satv = Min32 /\ satr = -32768

----------------------------------------------------------------------------
(* Properties of arrays_match *)

AbsDiffs == {Abs(mem["y_ref"][k] - mem["y_rvv"][k]) : k \in 1 .. n}

\* C4: arrays_match scans all n elements, returns match = 1 exactly when
\* every ref[i] equals test[i], and leaves in max_diff the largest
\* |ref[i] - test[i]| (0 when n = 0); so match = 1 exactly when max_diff = 0.
C4_ArraysMatch ==
    /\ pc \notin UbOutcomes
    /\ pc = "done" =>
          /\ i = n
          /\ match \in {0, 1}
          /\ match = 1 <=> \A k \in 1 .. n : mem["y_ref"][k] = mem["y_rvv"][k]
          /\ max_diff \in AbsDiffs \cup {0}
          /\ \A d \in AbsDiffs : d <= max_diff
          /\ match = 1 <=> max_diff = 0

\* C4 witness: arrays_match has returned on arrays whose first elements
\* differ and whose largest difference, 65535, comes later.
C4_Witness ==
    /\ pc = "done" /\ n >= 2 /\ match = 0
    /\ mem["y_ref"][1] < mem["y_rvv"][1]
    /\ Abs(mem["y_ref"][1] - mem["y_rvv"][1]) < max_diff
    /\ max_diff = 65535

----------------------------------------------------------------------------
(* Properties of main *)

Last(s) == s[Len(s)]
IsPrefix(s, t) == Len(s) <= Len(t) /\ \A k \in 1 .. Len(s) : s[k] = t[k]

\* C5: main exits with status 0 only if the edge-case battery passed and
\* arrays_match reported an exact match over the full buffers (max_diff 0);
\* an allocation failure, a failed edge case or a mismatch gives status 1.
C5_ExitStatus ==
    pc = "exit" =>
        /\ status \in {0, 1}
        /\ status = 0 <=>
              /\ Last(trace) = "report"
              /\ pass = 1
              /\ match = 1
              /\ max_diff = 0
              /\ mem["y_ref"] = mem["y_rvv"]

\* C5 witness: main has exited with status 0 after a run whose outputs
\* include saturated elements.
C5_Witness ==
    /\ pc = "exit" /\ status = 0 /\ pass = 1 /\ match = 1
    /\ \E k \in 1 .. N : mem["y_rvv"][k] \in {32767, -32768}

\* The order of main's steps that C10 states.
ClaimedOrder == <<"alloc", "fill", "edge", "scalar", "rvv", "compare", "report">>

\* The order of main's steps in the source.
SourceOrder == <<"edge", "alloc", "fill", "scalar", "rvv", "compare", "report">>

\* The step that the current position belongs to.
StepOf ==
    CASE pc \in {"edge_ref", "edge_rvv", "edge_check", "alloc"} -> "edge"
      [] pc = "fill" -> "alloc"
      [] pc = "time_ref" -> "fill"
      [] pc = "after_ref" -> "scalar"
      [] pc = "after_rvv" -> "rvv"
      [] pc = "report" -> "compare"
      [] pc \in {"ref_loop", "rvv_loop", "cmp_loop"} ->
            (CASE ret \in {"edge_rvv", "edge_check"} -> "edge"
               [] ret = "after_ref" -> "scalar"
               [] ret = "after_rvv" -> "rvv"
               [] ret = "report" -> "compare"
               [] OTHER -> "none")
      [] OTHER -> Last(trace)

Written(o) == {w[2] : w \in {x \in writes : x[1] = o}}

\* What holds of main's steps in either order: the step running is the last
\* one begun, the kernels run after the buffers are filled, each output
\* buffer is complete before the next step begins, and main exits only
\* after the report or a failed allocation.
StepsSequential ==
    pc # "main" =>
        /\ Last(trace) = StepOf
        /\ (\E k \in 1 .. Len(trace) : trace[k] = "rvv") => Written("y_ref") = 0 .. N - 1
        /\ (\E k \in 1 .. Len(trace) : trace[k] = "compare") => Written("y_rvv") = 0 .. N - 1
        /\ Last(trace) = "report" => i = N
        /\ pc = "exit" => Last(trace) \in {"report", "alloc_failed"}

====
